---- MODULE Spec2Model ----
(***************************************************************************)
(* A model of tools/database_utils.py: _build_db_url and DBSchemaExtractor. *)
(*                                                                         *)
(* Python strings are sequences of one-character strings, so that lower(), *)
(* upper(), split(','), strip(), replace("\n", "") and re.search work on   *)
(* characters as they do in the program.  Python's None is NULL.           *)
(*                                                                         *)
(* The database is the variable `catalog`: for every (schema, table name)  *)
(* slot, whether the table exists, its table comment, its columns and the  *)
(* text SHOW CREATE TABLE prints for it.  Each SQL text of the program is   *)
(* an operator that selects from the catalog what that text selects.       *)
(* A query with no ORDER BY returns its rows in the order the database     *)
(* scans them, which the program does not control: the input `scan`.       *)
(* A round trip may fail (the input `fault`): at connection checkout or at *)
(* statement execution.                                                    *)
(***************************************************************************)
EXTENDS Integers, Sequences, FiniteSets, TLC

VARIABLES
    catalog,     \* the live database catalog
    extractor,   \* the DBSchemaExtractor instance: db_type, username, engine, inspector
    checkedOut,  \* connections of the engine checked out by the extractor's own code
    ddl,         \* number of catalog changes made so far
    last         \* the last call: operation, arguments, environment inputs, outcome

vars == <<catalog, extractor, checkedOut, ddl, last>>

----------------------------------------------------------------------------
(* Bounds *)

\* most table names in a filter of the batch specifications
MaxTargets == 2
\* most characters in a filter of the filter specification
MaxFilterLen == 3
\* most segments in a CREATE statement of the statement specification
MaxSegs == 3
\* most catalog changes in the live-catalog specification
MaxDDL == 1

----------------------------------------------------------------------------
(* Strings *)

NULL == <<"NULL">>

UpperLetters ==
    <<"A","B","C","D","E","F","G","H","I","J","K","L","M",
      "N","O","P","Q","R","S","T","U","V","W","X","Y","Z">>

LowerLetters ==
    <<"a","b","c","d","e","f","g","h","i","j","k","l","m",
      "n","o","p","q","r","s","t","u","v","w","x","y","z">>

LowerChar(c) ==
    IF \E i \in 1..26 : UpperLetters[i] = c
    THEN LowerLetters[CHOOSE i \in 1..26 : UpperLetters[i] = c]
    ELSE c

UpperChar(c) ==
    IF \E i \in 1..26 : LowerLetters[i] = c
    THEN UpperLetters[CHOOSE i \in 1..26 : LowerLetters[i] = c]
    ELSE c

\* str.lower()
Lower(s) == [i \in 1..Len(s) |-> LowerChar(s[i])]

\* str.upper()
Upper(s) == [i \in 1..Len(s) |-> UpperChar(s[i])]

\* truthiness of an optional string: None and "" are false
Truthy(s) == s # NULL /\ s # <<>>

IsWhitespace(c) == c \in {" ", "\n", "\t"}

RECURSIVE LStrip(_)
LStrip(s) ==
    IF s # <<>> /\ IsWhitespace(Head(s)) THEN LStrip(Tail(s)) ELSE s

RECURSIVE RStrip(_)
RStrip(s) ==
    IF s # <<>> /\ IsWhitespace(s[Len(s)])
    THEN RStrip(SubSeq(s, 1, Len(s) - 1))
    ELSE s

\* str.strip()
Strip(s) == RStrip(LStrip(s))

\* str.split(','): the pieces between the commas, empty pieces included
RECURSIVE SplitComma(_, _, _)
SplitComma(s, i, piece) ==
    IF i > Len(s) THEN <<piece>>
    ELSE IF s[i] = ","
         THEN <<piece>> \o SplitComma(s, i + 1, <<>>)
         ELSE SplitComma(s, i + 1, Append(piece, s[i]))

Split(s) == SplitComma(s, 1, <<>>)

\* str.replace("\n", "")
RECURSIVE RemoveNewlines(_)
RemoveNewlines(s) ==
    IF s = <<>> THEN <<>>
    ELSE IF Head(s) = "\n" THEN RemoveNewlines(Tail(s))
         ELSE <<Head(s)>> \o RemoveNewlines(Tail(s))

\* (value or "").replace("\n", "")
CleanComment(c) == RemoveNewlines(IF Truthy(c) THEN c ELSE <<>>)

Reverse(s) == [i \in 1..Len(s) |-> s[Len(s) + 1 - i]]

InSeq(x, s) == \E i \in 1..Len(s) : s[i] = x

----------------------------------------------------------------------------
(* re.search(r"COMMENT='(.*?)'", create_stmt, re.IGNORECASE) *)

CommentKeyword == <<"c","o","m","m","e","n","t","=","'">>

\* the literal COMMENT=' matches at position i, letters compared without case
KeywordAt(s, i) ==
    /\ i + Len(CommentKeyword) - 1 <= Len(s)
    /\ Lower(SubSeq(s, i, i + Len(CommentKeyword) - 1)) = CommentKeyword

\* the closing quotes the lazy group (.*?) can stop at when it starts at g:
\* '.' matches any character but a newline
ClosingQuotes(s, g) ==
    {j \in g..Len(s) : s[j] = "'" /\ \A k \in g..(j - 1) : s[k] # "\n"}

MatchAt(s, i) == KeywordAt(s, i) /\ ClosingQuotes(s, i + Len(CommentKeyword)) # {}

Min(S) == CHOOSE x \in S : \A y \in S : x <= y

\* the match object: <<>> for None, else <<group(1)>> of the leftmost match,
\* the group taken as short as it can be
re_search(s) ==
    LET starts == {i \in 1..Len(s) : MatchAt(s, i)}
    IN  IF starts = {} THEN <<>>
        ELSE LET i == Min(starts)
                 g == i + Len(CommentKeyword)
                 j == Min(ClosingQuotes(s, g))
             IN  <<SubSeq(s, g, j - 1)>>

----------------------------------------------------------------------------
(* The database *)

\* the one account and the one database name the extractor is constructed with
Username == <<"a","p","p">>
Database == <<"a","p","p">>
OtherSchema == <<"h","r">>

\* family identifiers given to the constructor
MYSQL      == <<"m","y","s","q","l">>
POSTGRESQL == <<"p","o","s","t","g","r","e","s","q","l">>
MSSQL      == <<"m","s","s","q","l">>
ORACLE     == <<"o","r","a","c","l","e">>
DORIS      == <<"d","o","r","i","s">>
Spellings ==
    {MYSQL, POSTGRESQL, MSSQL, ORACLE, DORIS,
     <<"M","y","S","Q","L">>, <<"O","R","A","C","L","E">>, <<"D","o","r","i","s">>,
     <<"s","q","l","i","t","e">>}

\* the (schema, table name) slots of the catalog, in the order of a forward scan
SlotSeq ==
    << [schema |-> Username,    name |-> <<"T">>],
       [schema |-> Username,    name |-> <<"t">>],
       [schema |-> OtherSchema, name |-> <<"T">>] >>

Slots == 1..Len(SlotSeq)

\* table names given to the operations
TableNames == {SlotSeq[i].name : i \in Slots}

\* a column: its name, the type text the catalog reports, the text of the
\* driver's type object, its comment (NULL when none)
ColsA ==
    << [name |-> "id",   native |-> "int(11)",    reflected |-> "INTEGER",
        comment |-> NULL],
       [name |-> "note", native |-> "varchar(8)", reflected |-> "VARCHAR(8)",
        comment |-> <<"k","\n","y">>] >>

ColsB ==
    << [name |-> "id",   native |-> "bigint(20)", reflected |-> "BIGINT",
        comment |-> <<"p","k">>] >>

ColumnLists == {ColsA, ColsB}

\* table comments a table of a slot may carry
CommentsOf(i) ==
    IF SlotSeq[i].schema = Username THEN {NULL, <<>>, <<"c">>} ELSE {<<"o">>}

\* columns a table of a slot is created with
ColsOf(i) == IF SlotSeq[i].name = <<"t">> THEN ColsA ELSE ColsB

\* what SHOW CREATE TABLE prints for a table
Render(name, comment) ==
    <<"T","B","L"," ">> \o name \o
    (IF Truthy(comment)
     THEN <<" ","C","O","M","M","E","N","T","=","'">> \o comment \o <<"'">>
     ELSE <<>>)

Absent == [present |-> FALSE, comment |-> NULL, cols |-> <<>>, stmt |-> NULL]

Table(i, comment, cols) ==
    [present |-> TRUE, comment |-> comment, cols |-> cols,
     stmt |-> Render(SlotSeq[i].name, comment)]

Catalogs ==
    {cat \in [Slots -> {Absent} \cup
                       UNION {{Table(i, c, ColsOf(i)) : c \in CommentsOf(i)} : i \in Slots}] :
        \A i \in Slots : cat[i].present =>
            /\ cat[i].comment \in CommentsOf(i)
            /\ cat[i] = Table(i, cat[i].comment, ColsOf(i))}

Scans == {"fwd", "rev"}

ScanOrder(scan) ==
    IF scan = "fwd" THEN [i \in Slots |-> i] ELSE Reverse([i \in Slots |-> i])

\* the tables of the catalog, as rows, in scan order
TableRows(cat, scan) ==
    LET Row(i) == [schema |-> SlotSeq[i].schema, name |-> SlotSeq[i].name,
                   comment |-> cat[i].comment, cols |-> cat[i].cols,
                   stmt |-> cat[i].stmt]
        Rows(idx) == [k \in 1..Len(idx) |-> Row(idx[k])]
    IN  Rows(SelectSeq(ScanOrder(scan), LAMBDA i : cat[i].present))

\* cursor.fetchone(): <<>> for None, else the first row
fetchone(rows) == IF rows = <<>> THEN <<>> ELSE <<rows[1]>>

\* the names of the tables of the default schema: SHOW TABLES, get_table_names()
TablesOfDefaultSchema(cat, scan) ==
    LET rows == SelectSeq(TableRows(cat, scan), LAMBDA r : r.schema = Database)
    IN  [k \in 1..Len(rows) |-> rows[k].name]

\* SELECT table_comment FROM information_schema.tables WHERE table_name = t
MySQLCommentQuery(cat, scan, t) ==
    LET rows == SelectSeq(TableRows(cat, scan), LAMBDA r : r.name = t)
    IN  [k \in 1..Len(rows) |-> <<rows[k].comment>>]

\* SELECT obj_description('"t"'::regclass, 'pg_class'): one row for the table
\* of the search path; the cast fails when there is no such table
PgTableExists(cat, t) ==
    \E i \in Slots : cat[i].present /\ SlotSeq[i].schema = Database /\ SlotSeq[i].name = t

PgCommentQuery(cat, scan, t) ==
    LET rows == SelectSeq(TableRows(cat, scan),
                          LAMBDA r : r.schema = Database /\ r.name = t)
    IN  [k \in 1..Len(rows) |-> <<rows[k].comment>>]

\* sys.tables joined to sys.extended_properties: a row for each table of that
\* name that has a table-level property
MSSQLCommentQuery(cat, scan, t) ==
    LET rows == SelectSeq(TableRows(cat, scan),
                          LAMBDA r : r.name = t /\ r.comment # NULL)
    IN  [k \in 1..Len(rows) |-> <<rows[k].comment>>]

\* SHOW CREATE TABLE t: the row (Table, Create Table)
ShowCreateTable(cat, scan, t) ==
    LET rows == SelectSeq(TableRows(cat, scan),
                          LAMBDA r : r.schema = Database /\ r.name = t)
    IN  [k \in 1..Len(rows) |-> <<rows[k].name, rows[k].stmt>>]

\* SELECT table_comment FROM information_schema.tables
\*  WHERE table_schema = db_name AND table_name = t
DorisCommentQuery(cat, scan, db_name, t) ==
    LET rows == SelectSeq(TableRows(cat, scan),
                          LAMBDA r : r.schema = db_name /\ r.name = t)
    IN  [k \in 1..Len(rows) |-> <<rows[k].comment>>]

\* the columns of the rows, ORDER BY ordinal position; rows of one position
\* come in scan order
ColumnsByOrdinal(rows) ==
    LET at(k) == LET has == SelectSeq(rows, LAMBDA r : Len(r.cols) >= k)
                 IN  [j \in 1..Len(has) |-> has[j].cols[k]]
    IN  at(1) \o at(2)

\* SELECT column_name, column_type, column_comment FROM information_schema.columns
\*  WHERE table_schema = db_name AND table_name = t ORDER BY ordinal_position
DorisColumnQuery(cat, scan, db_name, t) ==
    LET cols == ColumnsByOrdinal(SelectSeq(TableRows(cat, scan),
                    LAMBDA r : r.schema = db_name /\ r.name = t))
    IN  [k \in 1..Len(cols) |-> <<cols[k].name, cols[k].native, cols[k].comment>>]

\* SELECT COMMENTS FROM ALL_TAB_COMMENTS
\*  WHERE OWNER = username AND TABLE_NAME = t OR TABLE_NAME = upper(t)
\* (AND binds tighter than OR)
OracleCommentQuery(cat, scan, username, t) ==
    LET rows == SelectSeq(TableRows(cat, scan),
                    LAMBDA r : (r.schema = username /\ r.name = t) \/ r.name = Upper(t))
    IN  [k \in 1..Len(rows) |-> <<rows[k].comment>>]

\* ALL_TAB_COLUMNS a LEFT JOIN ALL_COL_COMMENTS b
\*  WHERE a.OWNER = username AND (a.TABLE_NAME = t OR a.TABLE_NAME = upper(t))
\*  ORDER BY a.COLUMN_ID
OracleColumnQuery(cat, scan, username, t) ==
    LET cols == ColumnsByOrdinal(SelectSeq(TableRows(cat, scan),
                    LAMBDA r : r.schema = username /\ (r.name = t \/ r.name = Upper(t))))
    IN  [k \in 1..Len(cols) |-> <<cols[k].name, cols[k].native, cols[k].comment>>]

\* the dialect's column reflection of table t of the default schema:
\* <<>> when there is no such table, else <<the column dicts>>
ReflectColumns(cat, scan, t) ==
    LET Column(c) == [name |-> c.name, type |-> c.reflected, comment |-> c.comment]
        Columns(rows) ==
            IF rows = <<>> THEN <<>>
            ELSE << [k \in 1..Len(rows[1].cols) |-> Column(rows[1].cols[k])] >>
    IN  Columns(SelectSeq(TableRows(cat, scan),
                          LAMBDA r : r.schema = Database /\ r.name = t))

----------------------------------------------------------------------------
(* Round trips and their outcomes *)

\* the target of the table-listing round trip
ListTarget == <<"*">>

NoFault == [on |-> <<>>, at |-> "none"]

\* the round trips about table `on` fail: at connection checkout, or at execution
Faults(targets, ats) == {NoFault} \cup [on : targets, at : ats]

FaultPoints == {"connect", "execute"}

ConnFails(flt, target) == flt.on = target /\ flt.at = "connect"
ExecFails(flt, target) == flt.on = target /\ flt.at = "execute"

NoErr == [type |-> "", on |-> <<>>]
ConnectionError(target) == [type |-> "ConnectionError", on |-> target]
QueryError(target) == [type |-> "QueryError", on |-> target]
NoSuchTableError(target) == [type |-> "NoSuchTableError", on |-> target]
KeyError(key) == [type |-> "KeyError", on |-> key]

\* a call returns v / raises e; held: connections it leaves checked out;
\* cache: the inspector's cache after it
Ok(v, cache) == [kind |-> "ok", val |-> <<v>>, err |-> NoErr, held |-> 0, cache |-> cache]
Raise(e, cache) == [kind |-> "raise", val |-> <<>>, err |-> e, held |-> 0, cache |-> cache]

Checkout(n) == n + 1
Release(n) == n - 1

----------------------------------------------------------------------------
(* _build_db_url and DBSchemaExtractor *)

drivers ==
    (MYSQL      :> <<"p","y","m","y","s","q","l">>) @@
    (ORACLE     :> <<"o","r","a","c","l","e","d","b">>) @@
    (MSSQL      :> <<"p","y","m","s","s","q","l">>) @@
    (POSTGRESQL :> <<"p","s","y","c","o","p","g","2">>)

EmptyCache == [names_cached |-> FALSE, names |-> <<>>, columns |-> {}]

NoURL == [drivername |-> <<>>, username |-> <<>>, database |-> <<>>]

\* a lookup that falls back to the mysql driver: drivers.get(db_type, 'pymysql')
BuildDbUrlWithDefault(db_type, username, database) ==
    LET lowered == Lower(db_type)
        dialect == IF lowered = DORIS THEN MYSQL ELSE lowered
    IN  Ok([drivername |-> dialect \o <<"+">> \o
                          (IF dialect \in DOMAIN drivers THEN drivers[dialect]
                           ELSE drivers[MYSQL]),
            username |-> username, database |-> database], EmptyCache)

\* drivers[db_type] raises KeyError for a key the dict does not hold
_build_db_url(db_type, username, database) ==
    LET lowered == Lower(db_type)
        dialect == IF lowered = DORIS THEN MYSQL ELSE lowered
    IN  IF dialect \notin DOMAIN drivers
        THEN Raise(KeyError(dialect), EmptyCache)
        ELSE Ok([drivername |-> dialect \o <<"+">> \o drivers[dialect],
                 username |-> username, database |-> database], EmptyCache)

NoExtractor ==
    [constructed |-> FALSE, db_type |-> <<>>, username |-> <<>>, url |-> NoURL,
     info_cache |-> EmptyCache]

\* __init__: create_engine opens nothing; inspect(engine) connects once and
\* starts with an empty cache; db_type is stored as given
__init__(db_type, username, database, flt) ==
    LET db_url == _build_db_url(db_type, username, database)
    IN  IF db_url.kind = "raise" THEN db_url
        ELSE IF flt.at = "connect" THEN Raise(ConnectionError(flt.on), EmptyCache)
        ELSE Ok([constructed |-> TRUE, db_type |-> db_type, username |-> username,
                 url |-> db_url.val[1], info_cache |-> EmptyCache], EmptyCache)

\* conn = self.engine.connect(); ...; conn.close(): an error in between
\* skips the close
ConnectionClosedOnSuccess(flt, target, cache, body) ==
    IF ConnFails(flt, target) THEN Raise(ConnectionError(target), cache)
    ELSE IF body.kind = "raise" THEN [body EXCEPT !.held = Checkout(@)]
    ELSE [body EXCEPT !.held = Release(Checkout(@))]

\* with self.engine.connect() as conn: the connection is given back on every
\* way out of the block
ScopedConnection(flt, target, cache, body) ==
    IF ConnFails(flt, target) THEN Raise(ConnectionError(target), cache)
    ELSE [body EXCEPT !.held = Release(Checkout(@))]

\* conn.execute(text(query)), then the rest of the block
Execute(flt, target, cache, rest) ==
    IF ExecFails(flt, target) THEN Raise(QueryError(target), cache) ELSE rest

\* self.inspector.get_table_names(): reflected once, then served from the
\* inspector's cache
inspector_get_table_names(cat, self, scan, flt) ==
    LET cache == self.info_cache
    IN  IF cache.names_cached THEN Ok(cache.names, cache)
        ELSE IF ConnFails(flt, ListTarget) THEN Raise(ConnectionError(ListTarget), cache)
        ELSE IF ExecFails(flt, ListTarget) THEN Raise(QueryError(ListTarget), cache)
        ELSE LET Listed(names) ==
                     Ok(names, [cache EXCEPT !.names_cached = TRUE, !.names = names])
             IN  Listed(TablesOfDefaultSchema(cat, scan))

\* self.inspector.get_columns(table_name): reflected once per table, then
\* served from the inspector's cache
inspector_get_columns(cat, self, scan, flt, table_name) ==
    LET cache == self.info_cache
        Reflected(found) ==
            IF found = <<>> THEN Raise(NoSuchTableError(table_name), cache)
            ELSE Ok(found[1],
                    [cache EXCEPT !.columns =
                        @ \cup {[name |-> table_name, cols |-> found[1]]}])
    IN  IF \E e \in cache.columns : e.name = table_name
        THEN Ok((CHOOSE e \in cache.columns : e.name = table_name).cols, cache)
        ELSE IF ConnFails(flt, table_name)
        THEN Raise(ConnectionError(table_name), cache)
        ELSE IF ExecFails(flt, table_name) THEN Raise(QueryError(table_name), cache)
        ELSE Reflected(ReflectColumns(cat, scan, table_name))

\* return result[1] if result and result[1] else ""
_get_doris_create_statement(cat, self, scan, flt, table_name) ==
    ScopedConnection(flt, table_name, self.info_cache,
        Execute(flt, table_name, self.info_cache,
            LET Statement(result) ==
                    IF result # <<>> /\ Truthy(result[1][2]) THEN result[1][2] ELSE <<>>
            IN  Ok(Statement(fetchone(ShowCreateTable(cat, scan, table_name))),
                   self.info_cache)))

\* return match.group(1) if match else table_name
DorisCommentOf(create_stmt, table_name) ==
    LET match == re_search(create_stmt)
    IN  IF match # <<>> THEN match[1] ELSE table_name

\* return result[0] if result and result[0] else ""
CommentOrEmpty(result, table_name) ==
    IF result # <<>> /\ Truthy(result[1][1]) THEN result[1][1] ELSE <<>>

\* return result[0] if result and result[0] else table_name
CommentOrTableName(result, table_name) ==
    IF result # <<>> /\ Truthy(result[1][1]) THEN result[1][1] ELSE table_name

\* the rows of the comment query of the family
CommentQuery(cat, db_type, scan, table_name) ==
    IF db_type = MYSQL THEN MySQLCommentQuery(cat, scan, table_name)
    ELSE IF db_type = POSTGRESQL THEN PgCommentQuery(cat, scan, table_name)
    ELSE MSSQLCommentQuery(cat, scan, table_name)

\* the comment query of the family fails in the database
CommentQueryFails(cat, db_type, table_name) ==
    db_type = POSTGRESQL /\ ~PgTableExists(cat, table_name)

_get_table_comment(cat, self, scan, flt, table_name) ==
    LET cache == self.info_cache
    IN  IF self.db_type \in {MYSQL, POSTGRESQL, MSSQL}
        THEN ScopedConnection(flt, table_name, cache,
                Execute(flt, table_name, cache,
                    IF CommentQueryFails(cat, self.db_type, table_name)
                    THEN Raise(QueryError(table_name), cache)
                    ELSE LET result == fetchone(CommentQuery(cat, self.db_type, scan,
                                                             table_name))
                         IN  Ok(CommentOrTableName(result, table_name), cache)))
        ELSE IF self.db_type = DORIS
        THEN LET Parse(create_stmt) ==
                     IF create_stmt.kind = "raise" THEN create_stmt
                     ELSE Ok(DorisCommentOf(create_stmt.val[1], table_name), cache)
             IN  Parse(_get_doris_create_statement(cat, self, scan, flt, table_name))
        ELSE Ok(table_name, cache)

\* the column dicts built from catalog rows (name, type, comment)
ColumnsFromRows(rows) ==
    [k \in 1..Len(rows) |->
        [name |-> rows[k][1], type |-> rows[k][2], comment |-> CleanComment(rows[k][3])]]

\* if table_result: schema["comment"] = table_result[0]
DorisTableComment(table_result) ==
    IF table_result # <<>> THEN table_result[1][1] ELSE <<>>

_get_doris_table_schema(cat, self, scan, flt, table_name) ==
    LET cache == self.info_cache
        db_name == self.url.database
    IN  ScopedConnection(flt, table_name, cache,
            Execute(flt, table_name, cache,
                LET table_result == fetchone(DorisCommentQuery(cat, scan, db_name, table_name))
                    col_results == DorisColumnQuery(cat, scan, db_name, table_name)
                IN  Ok([table_name |-> table_name,
                        comment |-> DorisTableComment(table_result),
                        columns |-> ColumnsFromRows(col_results)], cache)))

\* schema["comment"] = result[0] if result else ""
OracleTableComment(result) ==
    IF result # <<>> THEN result[1][1] ELSE <<>>

_get_oracle_table_schema(cat, self, scan, flt, table_name) ==
    LET cache == self.info_cache
    IN  ScopedConnection(flt, table_name, cache,
            Execute(flt, table_name, cache,
                LET result == fetchone(OracleCommentQuery(cat, scan, self.username, table_name))
                    col_results == OracleColumnQuery(cat, scan, self.username, table_name)
                IN  Ok([table_name |-> table_name,
                        comment |-> OracleTableComment(result),
                        columns |-> ColumnsFromRows(col_results)], cache)))

\* the generic path: the comment, then the reflected columns
GenericTableSchema(cat, self, scan, flt, table_name) ==
    LET Column(column) == [name |-> column.name, type |-> column.type,
                           comment |-> CleanComment(column.comment)]
        Schema(comment, cols) ==
            IF comment.kind = "raise" THEN comment
            ELSE IF cols.kind = "raise" THEN [cols EXCEPT !.held = @ + comment.held]
            ELSE [Ok([table_name |-> table_name,
                      comment |-> comment.val[1],
                      columns |-> [k \in 1..Len(cols.val[1]) |-> Column(cols.val[1][k])]],
                     cols.cache)
                  EXCEPT !.held = comment.held + cols.held]
    IN  Schema(_get_table_comment(cat, self, scan, flt, table_name),
               inspector_get_columns(cat, self, scan, flt, table_name))

_get_table_schema(cat, self, scan, flt, table_name) ==
    IF self.db_type = ORACLE
    THEN _get_oracle_table_schema(cat, self, scan, flt, table_name)
    ELSE IF self.db_type = DORIS
    THEN _get_doris_table_schema(cat, self, scan, flt, table_name)
    ELSE GenericTableSchema(cat, self, scan, flt, table_name)

\* the discovered tables that the filter names, in the order of discovery
TargetTablesInCatalogOrder(all_table_names, table_names) ==
    IF Truthy(table_names)
    THEN LET pieces == Split(table_names)
             stripped == [i \in 1..Len(pieces) |-> Strip(pieces[i])]
         IN  SelectSeq(all_table_names, LAMBDA table : InSeq(table, stripped))
    ELSE all_table_names

\* target_tables: every discovered table, or the stripped pieces of the
\* filter that are discovered tables
TargetTables(all_table_names, table_names) ==
    IF Truthy(table_names)
    THEN LET pieces == Split(table_names)
             stripped == [i \in 1..Len(pieces) |-> Strip(pieces[i])]
         IN  SelectSeq(stripped, LAMBDA table : InSeq(table, all_table_names))
    ELSE all_table_names

\* schemas[table] = value, on a dict kept as its items in insertion order
DictSet(schemas, table, value) ==
    IF \E i \in 1..Len(schemas) : schemas[i].key = table
    THEN [i \in 1..Len(schemas) |->
            IF schemas[i].key = table THEN [key |-> table, value |-> value]
            ELSE schemas[i]]
    ELSE Append(schemas, [key |-> table, value |-> value])

\* the loop with each table in try/except: a table that fails is skipped
RECURSIVE ExtractEachSkippingFailures(_, _, _, _, _, _, _)
ExtractEachSkippingFailures(cat, self, scan, flt, target_tables, schemas, held) ==
    IF target_tables = <<>>
    THEN [Ok(schemas, self.info_cache) EXCEPT !.held = held]
    ELSE LET table == Head(target_tables)
             Store(one) ==
                 IF one.kind = "raise"
                 THEN ExtractEachSkippingFailures(cat, self, scan, flt, Tail(target_tables),
                                                  schemas, held + one.held)
                 ELSE ExtractEachSkippingFailures(cat, [self EXCEPT !.info_cache = one.cache],
                                                  scan, flt, Tail(target_tables),
                                                  DictSet(schemas, table, one.val[1]),
                                                  held + one.held)
         IN  Store(_get_table_schema(cat, self, scan, flt, table))

\* for table in target_tables: schemas[table] = self._get_table_schema(table)
RECURSIVE ExtractEach(_, _, _, _, _, _, _)
ExtractEach(cat, self, scan, flt, target_tables, schemas, held) ==
    IF target_tables = <<>>
    THEN [Ok(schemas, self.info_cache) EXCEPT !.held = held]
    ELSE LET table == Head(target_tables)
             Store(one) ==
                 IF one.kind = "raise" THEN [one EXCEPT !.held = @ + held]
                 ELSE ExtractEach(cat, [self EXCEPT !.info_cache = one.cache], scan, flt,
                                  Tail(target_tables),
                                  DictSet(schemas, table, one.val[1]),
                                  held + one.held)
         IN  Store(_get_table_schema(cat, self, scan, flt, table))

\* all_table_names: SHOW TABLES for doris, the inspector otherwise
ListTables(cat, self, scan, flt) ==
    IF self.db_type = DORIS
    THEN ScopedConnection(flt, ListTarget, self.info_cache,
            Execute(flt, ListTarget, self.info_cache,
                Ok(TablesOfDefaultSchema(cat, scan), self.info_cache)))
    ELSE inspector_get_table_names(cat, self, scan, flt)

get_all_tables_schema(cat, self, scan, flt, table_names) ==
    LET Extract(all_table_names) ==
            IF all_table_names.kind = "raise" THEN all_table_names
            ELSE ExtractEach(cat, [self EXCEPT !.info_cache = all_table_names.cache],
                             scan, flt,
                             TargetTables(all_table_names.val[1], table_names),
                             <<>>, all_table_names.held)
    IN  Extract(ListTables(cat, self, scan, flt))

----------------------------------------------------------------------------
(* Inputs of the calls *)

\* get_all_tables_schema() without a filter
NoFilter == NULL

\* ",".join(names)
RECURSIVE CommaJoin(_)
CommaJoin(names) ==
    IF Len(names) = 0 THEN <<>>
    ELSE IF Len(names) = 1 THEN names[1]
    ELSE names[1] \o <<",">> \o CommaJoin(Tail(names))

\* no filter, and the filters that list up to MaxTargets table names
BatchFilters ==
    {NoFilter} \cup
    UNION {{CommaJoin(names) : names \in [1..k -> TableNames]} : k \in 1..MaxTargets}

FilterChars == {"t", "T", ",", " "}

\* no filter, and every filter text of up to MaxFilterLen characters
TextFilters ==
    {NoFilter} \cup UNION {[1..k -> FilterChars] : k \in 0..MaxFilterLen}

\* the segments CREATE statements are put together from
Segments ==
    { <<"C","O","M","M","E","N","T","=","'">>,
      <<"c","o","m","m","e","n","t","=","'">>,
      <<"x">>, <<"'">>, <<"\n">> }

RECURSIVE Concat(_)
Concat(ss) == IF ss = <<>> THEN <<>> ELSE Head(ss) \o Concat(Tail(ss))

\* the statement texts of up to MaxSegs segments, and no text at all
Statements ==
    {NULL} \cup UNION {{Concat(ss) : ss \in [1..k -> Segments]} : k \in 0..MaxSegs}

----------------------------------------------------------------------------
(* The calls *)

NoCall ==
    [op |-> "none", arg |-> <<>>, fault |-> NoFault, scan |-> "fwd",
     kind |-> "none", val |-> <<>>, err |-> NoErr]

Called(op, arg, flt, scan, r) ==
    [op |-> op, arg |-> arg, fault |-> flt, scan |-> scan,
     kind |-> r.kind, val |-> r.val, err |-> r.err]

\* the outcome r of a call of the extractor: the inspector keeps what it has
\* read, the connections left checked out stay so, the caller gets r
Complete(op, arg, flt, scan, r) ==
    /\ extractor' = [extractor EXCEPT !.info_cache = r.cache]
    /\ checkedOut' = checkedOut + r.held
    /\ last' = Called(op, arg, flt, scan, r)

\* DBSchemaExtractor(db_type, host, port, username, password, database, properties)
Construct ==
    /\ last.op = "none"
    /\ ~extractor.constructed
    /\ \E db_type \in Spellings, flt \in Faults({ListTarget}, {"connect"}) :
        LET r == __init__(db_type, Username, Database, flt)
        IN  /\ extractor' = IF r.kind = "ok" THEN r.val[1] ELSE extractor
            /\ last' = Called("__init__", db_type, flt, "fwd",
                              [r EXCEPT !.val = <<>>])
    /\ UNCHANGED <<catalog, checkedOut, ddl>>

\* extractor.get_all_tables_schema(table_names)
GetAllTablesSchema(filters, ats) ==
    /\ last.op = "none"
    /\ extractor.constructed
    /\ \E table_names \in filters, scan \in Scans,
          flt \in Faults(TableNames \cup {ListTarget}, ats) :
        Complete("get_all_tables_schema", table_names, flt, scan,
                 get_all_tables_schema(catalog, extractor, scan, flt, table_names))
    /\ UNCHANGED <<catalog, ddl>>

\* extractor._get_table_schema(table_name)
GetTableSchema(ats) ==
    /\ last.op = "none"
    /\ extractor.constructed
    /\ \E table_name \in TableNames, scan \in Scans :
       \E flt \in Faults({table_name}, ats) :
        Complete("_get_table_schema", table_name, flt, scan,
                 _get_table_schema(catalog, extractor, scan, flt, table_name))
    /\ UNCHANGED <<catalog, ddl>>

\* extractor._get_table_comment(table_name)
GetTableComment(ats) ==
    /\ last.op = "none"
    /\ extractor.constructed
    /\ \E table_name \in TableNames, scan \in Scans :
       \E flt \in Faults({table_name}, ats) :
        Complete("_get_table_comment", table_name, flt, scan,
                 _get_table_comment(catalog, extractor, scan, flt, table_name))
    /\ UNCHANGED <<catalog, ddl>>

\* the caller takes the outcome; the extractor is ready for the next call
Return ==
    /\ last.op # "none"
    /\ last' = NoCall
    /\ UNCHANGED <<catalog, extractor, checkedOut, ddl>>

----------------------------------------------------------------------------
(* Changes of the live catalog, made by other sessions between two calls *)

CreateTable ==
    /\ last.op = "none"
    /\ ddl < MaxDDL
    /\ \E i \in Slots : \E c \in CommentsOf(i) :
        /\ ~catalog[i].present
        /\ catalog' = [catalog EXCEPT ![i] = Table(i, c, ColsOf(i))]
    /\ ddl' = ddl + 1
    /\ UNCHANGED <<extractor, checkedOut, last>>

DropTable ==
    /\ last.op = "none"
    /\ ddl < MaxDDL
    /\ \E i \in Slots :
        /\ catalog[i].present
        /\ catalog' = [catalog EXCEPT ![i] = Absent]
    /\ ddl' = ddl + 1
    /\ UNCHANGED <<extractor, checkedOut, last>>

CommentOn ==
    /\ last.op = "none"
    /\ ddl < MaxDDL
    /\ \E i \in Slots : \E c \in CommentsOf(i) :
        /\ catalog[i].present
        /\ c # catalog[i].comment
        /\ catalog' = [catalog EXCEPT ![i] = Table(i, c, catalog[i].cols)]
    /\ ddl' = ddl + 1
    /\ UNCHANGED <<extractor, checkedOut, last>>

AlterColumns ==
    /\ last.op = "none"
    /\ ddl < MaxDDL
    /\ \E i \in Slots : \E cols \in ColumnLists :
        /\ catalog[i].present
        /\ cols # catalog[i].cols
        /\ catalog' = [catalog EXCEPT ![i] = Table(i, catalog[i].comment, cols)]
    /\ ddl' = ddl + 1
    /\ UNCHANGED <<extractor, checkedOut, last>>

----------------------------------------------------------------------------
(* Specifications *)

\* any catalog, no extractor yet
Init ==
    /\ catalog \in Catalogs
    /\ extractor = NoExtractor
    /\ checkedOut = 0
    /\ ddl = 0
    /\ last = NoCall

\* the calls on an unchanging catalog, round trips failing at will
Next ==
    \/ Construct
    \/ GetAllTablesSchema(BatchFilters, FaultPoints)
    \/ GetTableSchema(FaultPoints)
    \/ GetTableComment(FaultPoints)
    \/ Return

Spec == Init /\ [][Next]_vars

\* get_all_tables_schema on every filter text, no round trip failing, by an
\* extractor constructed for mysql or for doris
InitFilter ==
    /\ catalog \in Catalogs
    /\ extractor \in {__init__(db_type, Username, Database, NoFault).val[1] :
                          db_type \in {MYSQL, DORIS}}
    /\ checkedOut = 0
    /\ ddl = 0
    /\ last = NoCall

NextFilter ==
    \/ GetAllTablesSchema(TextFilters, {})
    \/ Return

SpecFilter == InitFilter /\ [][NextFilter]_vars

\* the calls on a catalog that other sessions change between them
InitLive ==
    /\ catalog \in {cat \in Catalogs : \A i \in Slots : cat[i].comment \in {NULL, <<"c">>}}
    /\ extractor = NoExtractor
    /\ checkedOut = 0
    /\ ddl = 0
    /\ last = NoCall

NextLive ==
    \/ Construct
    \/ CreateTable
    \/ DropTable
    \/ CommentOn
    \/ AlterColumns
    \/ GetAllTablesSchema(BatchFilters, {})
    \/ GetTableSchema({})
    \/ Return

SpecLive == InitLive /\ [][NextLive]_vars

\* _get_table_comment on a table whose CREATE statement is any statement text
InitStmt ==
    /\ catalog \in {[i \in Slots |->
                        IF SlotSeq[i] = [schema |-> Database, name |-> <<"t">>]
                        THEN [Table(i, NULL, ColsOf(i)) EXCEPT !.stmt = stmt]
                        ELSE Absent] : stmt \in Statements}
    /\ extractor = NoExtractor
    /\ checkedOut = 0
    /\ ddl = 0
    /\ last = NoCall

NextStmt ==
    \/ Construct
    \/ GetTableComment(FaultPoints)
    \/ Return

SpecStmt == InitStmt /\ [][NextStmt]_vars

----------------------------------------------------------------------------
(* Properties *)

Supported == {MYSQL, POSTGRESQL, ORACLE, MSSQL, DORIS}

\* the keys of a returned map, in insertion order
Keys(schemas) == [i \in 1..Len(schemas) |-> schemas[i].key]

\* the stripped pieces of a filter text
Entries(text) == LET pieces == Split(text) IN [i \in 1..Len(pieces) |-> Strip(pieces[i])]

\* the place of the first piece of the filter that is name
FirstEntry(text, name) == Min({i \in 1..Len(Entries(text)) : Entries(text)[i] = name})

\* C1: with a non-empty filter F over the discovered tables D, the keys of the
\* returned map are the stripped comma-separated pieces of F that are in D,
\* each once, in the order they first appear in F; every key is a key of the
\* unfiltered result, and every piece not in D is dropped without an error.
FilterKeys ==
    (last.op = "get_all_tables_schema" /\ Truthy(last.arg)) =>
        LET D == TablesOfDefaultSchema(catalog, last.scan)
            keys == Keys(last.val[1])
        IN  /\ last.kind = "ok"
            /\ \A k \in 1..Len(keys) :
                /\ InSeq(keys[k], D)
                /\ InSeq(keys[k], Entries(last.arg))
                /\ last.val[1][k].value.table_name = keys[k]
            /\ \A i \in 1..Len(Entries(last.arg)) :
                InSeq(Entries(last.arg)[i], D) => InSeq(Entries(last.arg)[i], keys)
            /\ \A j, k \in 1..Len(keys) :
                j < k => FirstEntry(last.arg, keys[j]) < FirstEntry(last.arg, keys[k])

\* C1 witness: the filter "t,T" over a catalog holding both gave the keys t, T
FilterKeysWitness ==
    /\ last.op = "get_all_tables_schema"
    /\ last.arg = <<"t", ",", "T">>
    /\ last.kind = "ok"
    /\ TablesOfDefaultSchema(catalog, last.scan) = << <<"T">>, <<"t">> >>
    /\ Keys(last.val[1]) = << <<"t">>, <<"T">> >>

\* the outcome of the last call had the extractor stored the family as
\* _build_db_url reads it, in lower case
LowerCaseOutcome ==
    LET lowered == [extractor EXCEPT !.db_type = Lower(@)]
    IN  IF last.op = "get_all_tables_schema"
        THEN get_all_tables_schema(catalog, lowered, last.scan, last.fault, last.arg)
        ELSE IF last.op = "_get_table_schema"
        THEN _get_table_schema(catalog, lowered, last.scan, last.fault, last.arg)
        ELSE _get_table_comment(catalog, lowered, last.scan, last.fault, last.arg)

\* C2: whatever the case of the family given to the constructor, listing,
\* _get_table_schema and _get_table_comment do what they do for the
\* lower-case spelling.
FamilyCaseInsensitive ==
    (/\ last.op \in {"get_all_tables_schema", "_get_table_schema", "_get_table_comment"}
     /\ last.fault = NoFault) =>
        /\ last.kind = LowerCaseOutcome.kind
        /\ last.val = LowerCaseOutcome.val

\* the table has no comment as the comment query of the family sees it:
\* no row, a null value or an empty string
NoComment(result) == result = <<>> \/ ~Truthy(result[1][1])

\* C3: _get_table_schema of a table with no comment gives comment = the table
\* name on the mysql, postgresql and mssql paths (no row, null or empty), and
\* comment = "" on the doris path and on the oracle path when the comment
\* query returns no row.
NoCommentFallback ==
    (last.op = "_get_table_schema" /\ last.kind = "ok") =>
        LET t == last.arg
            comment == last.val[1].comment
        IN  /\ (/\ extractor.db_type \in {MYSQL, POSTGRESQL, MSSQL}
                /\ NoComment(fetchone(CommentQuery(catalog, extractor.db_type,
                                                   last.scan, t))))
               => comment = t
            /\ (/\ extractor.db_type = DORIS
                /\ DorisCommentQuery(catalog, last.scan, Database, t) = <<>>)
               => comment = <<>>
            /\ (/\ extractor.db_type = ORACLE
                /\ OracleCommentQuery(catalog, last.scan, Username, t) = <<>>)
               => comment = <<>>

\* C3 witness: mysql, the comment query returned a null value, the comment
\* is the table name
NoCommentFallbackWitness ==
    /\ last.op = "_get_table_schema"
    /\ last.kind = "ok"
    /\ extractor.db_type = MYSQL
    /\ fetchone(CommentQuery(catalog, MYSQL, last.scan, last.arg)) = << <<NULL>> >>
    /\ last.val[1].comment = last.arg

\* C4: in every TableSchema _get_table_schema returns, the table comment and
\* every column comment is a string, never null.
CommentsAreStrings ==
    (last.op = "_get_table_schema" /\ last.kind = "ok") =>
        /\ last.val[1].comment # NULL
        /\ \A k \in 1..Len(last.val[1].columns) : last.val[1].columns[k].comment # NULL

\* the target tables of the last get_all_tables_schema call
LastTargets ==
    TargetTables(ListTables(catalog, extractor, last.scan, last.fault).val[1], last.arg)

\* the outcome of the metadata retrieval of the i-th target table
LastRetrieval(i) ==
    _get_table_schema(catalog, extractor, last.scan, last.fault, LastTargets[i])

\* C5: if the metadata retrieval of any target table raises, wherever the
\* table stands among the targets, get_all_tables_schema raises that error
\* unmodified and returns no map, not even a partial one.
BatchFailsWhole ==
    (/\ last.op = "get_all_tables_schema"
     /\ ListTables(catalog, extractor, last.scan, last.fault).kind = "ok") =>
        LET failing == {i \in 1..Len(LastTargets) : LastRetrieval(i).kind = "raise"}
        IN  failing # {} =>
                /\ last.kind = "raise"
                /\ last.val = <<>>
                /\ last.err = LastRetrieval(Min(failing)).err

\* C5 witness: the call failed on its second target table, after the first
\* had been extracted
BatchFailsWholeWitness ==
    /\ last.op = "get_all_tables_schema"
    /\ last.kind = "raise"
    /\ ListTables(catalog, extractor, last.scan, last.fault).kind = "ok"
    /\ Len(LastTargets) = 2
    /\ LastRetrieval(1).kind = "ok"
    /\ LastRetrieval(2).kind = "raise"
    /\ last.err = LastRetrieval(2).err

\* the outcome of the last call had the extractor read everything from the
\* catalog as it is now, nothing remembered from earlier calls
LiveOutcome ==
    LET fresh == [extractor EXCEPT !.info_cache = EmptyCache]
    IN  IF last.op = "get_all_tables_schema"
        THEN get_all_tables_schema(catalog, fresh, last.scan, last.fault, last.arg)
        ELSE _get_table_schema(catalog, fresh, last.scan, last.fault, last.arg)

\* what an outcome returned: the entries of the map, whatever their order, or
\* the one TableSchema
Returned(op, val) ==
    IF val = <<>> THEN {}
    ELSE IF op = "get_all_tables_schema" THEN {val[1][i] : i \in 1..Len(val[1])}
    ELSE {val[1]}

\* C6: calls are not cached: what get_all_tables_schema and _get_table_schema
\* return is what the catalog holds at the time of the call, whatever was
\* read by earlier calls and whatever changed in the catalog since.
ResultsAreLive ==
    last.op \in {"get_all_tables_schema", "_get_table_schema"} =>
        /\ last.kind = LiveOutcome.kind
        /\ Returned(last.op, last.val) = Returned(last.op, LiveOutcome.val)

StatementOf(t) ==
    LET rows == ShowCreateTable(catalog, last.scan, t)
    IN  IF rows = <<>> THEN NULL ELSE rows[1][2]

\* the COMMENT='...' occurrences of a statement: where COMMENT=' stands, in any
\* case, with a closing quote after it
CommentClauses(s) ==
    {i \in 1..Len(s) :
        /\ KeywordAt(s, i)
        /\ \E j \in (i + Len(CommentKeyword))..Len(s) : s[j] = "'"}

\* the text between the quotes of the first COMMENT='...' occurrence
FirstClauseText(s) ==
    LET g == Min(CommentClauses(s)) + Len(CommentKeyword)
        j == Min({k \in g..Len(s) : s[k] = "'"})
    IN  SubSeq(s, g, j - 1)

\* C8: for doris, _get_table_comment returns the text between the quotes of
\* the first COMMENT='...' occurrence of the CREATE statement, and the table
\* name when the statement has no such clause or the query returns no row.
DorisCommentIsFirstClause ==
    (last.op = "_get_table_comment" /\ last.kind = "ok" /\ extractor.db_type = DORIS) =>
        LET s == StatementOf(last.arg)
        IN  last.val[1] = IF s = NULL \/ CommentClauses(s) = {} THEN last.arg
                          ELSE FirstClauseText(s)

\* C9: for oracle, the table comment of a returned TableSchema is the comment
\* of a catalog row whose owner is the configured username and whose table name
\* is the given name or its upper case (or "" when there is none): never the
\* comment of a table of another owner.
OracleCommentFromOwner ==
    (last.op = "_get_table_schema" /\ last.kind = "ok" /\ extractor.db_type = ORACLE) =>
        last.val[1].comment \in
            {<<>>} \cup
            {catalog[i].comment : i \in {j \in Slots :
                /\ catalog[j].present
                /\ SlotSeq[j].schema = extractor.username
                /\ SlotSeq[j].name \in {last.arg, Upper(last.arg)}}}

\* C10: between calls and after every call, returned or raised, no connection
\* the extractor's own code checked out is still checked out.
ConnectionsReleased == checkedOut = 0

\* C10 witness: a doris batch raised a query error inside the connection block
\* of a table, after the block of the listing, and nothing is checked out
ConnectionsReleasedWitness ==
    /\ last.op = "get_all_tables_schema"
    /\ extractor.db_type = DORIS
    /\ last.kind = "raise"
    /\ last.err.type = "QueryError"
    /\ last.err.on \in TableNames
    /\ checkedOut = 0

====
